---- MODULE Spec2Model ----
(***************************************************************************)
(* Model of backend/routes/collections.py: the copy and move background    *)
(* engines, the launchers that schedule them, the in-process progress      *)
(* registry and the progress query.                                        *)
(*                                                                         *)
(* Granularity.  The engines are coroutines on one event loop and every    *)
(* database call in them is synchronous, so an engine runs without         *)
(* interruption from one await to the next.  One action is therefore one   *)
(* stretch of code between two awaits: the launch handler, the start of    *)
(* the engine up to its first asyncio.sleep, one further loop iteration,   *)
(* and the eviction after asyncio.sleep(300).                              *)
(***************************************************************************)
EXTENDS Integers, Sequences, FiniteSets, TLC

\* Record ids (company_id) are 1..MaxRec.
MaxRec == 3
\* Longest company_ids list of a move request.
MaxLen == 3
\* The ids a move request may name are 1..MaxMoveId.
MaxMoveId == 2
\* Number of operations launched in one run of the process.
MaxOps == 2
\* Page size of both engines.  The source sets 200; the model pages by 2 so
\* that collections of MaxRec records span several pages.
batch_size == 2

Recs == 1..MaxRec
Colls == {"L", "A", "B"}
OpIds == 1..MaxOps
LikedName == "Liked Companies List"
None == "None"

VARIABLES
    assoc,               \* CompanyCollectionAssociation: rows per (collection, company)
    collection_name,     \* CompanyCollection.collection_name per collection id
    operation_progress,  \* the registry: operation id -> progress
    ops,                 \* per operation id: the engine's arguments, locals and position
    next_id,             \* the next fresh operation id (uuid4 never repeats)
    hist,                \* per operation id: what the claims need to remember of its run
    prev_copy,           \* the last evicted copy: its source, target and rows placed
    env                  \* what the clients of the process do (fixed from the start)

vars == <<assoc, collection_name, operation_progress, ops, next_id, hist, prev_copy, env>>

-----------------------------------------------------------------------------
(* Progress values.  The registry holds floats; processed / total * 100 is *)
(* kept as the exact fraction n / d so that "== 100" is decided exactly.   *)

Lit(x) == [n |-> x, d |-> 1]
Is100(v) == v.n = 100 * v.d
IsFail(v) == v.n = -1 * v.d
\* The ratio taken against the page size in place of the total.
PercentOfBatch(processed, total) == [n |-> processed * 100, d |-> batch_size]

Percent(processed, total) == [n |-> processed * 100, d |-> total]

-----------------------------------------------------------------------------
(* The association store.                                                  *)

Min(a, b) == IF a < b THEN a ELSE b

Members(store, c) == {r \in Recs : store[c][r] > 0}

SeqToSet(s) == {s[k] : k \in DOMAIN s}

RECURSIVE Repeat(_, _)
Repeat(r, k) == IF k = 0 THEN <<>> ELSE <<r>> \o Repeat(r, k - 1)

\* The rows of one collection in the order a scan returns them.  The queries
\* carry no ORDER BY; the model takes the stable order by company id.
RECURSIVE RowsFrom(_, _, _)
RowsFrom(store, c, r) ==
    IF r > MaxRec THEN <<>>
    ELSE Repeat(r, store[c][r]) \o RowsFrom(store, c, r + 1)

Rows(store, c) == RowsFrom(store, c, 1)

\* .offset(o).limit(l).all()
Page(rows, o, l) == SubSeq(rows, o + 1, Min(o + l, Len(rows)))

Count(rows, r) == Cardinality({k \in DOMAIN rows : rows[k] = r})

\* The uniqueness constraint on (company_id, collection_id).
UniqueViolation(store, c, rows) ==
    \E k \in DOMAIN rows : store[c][rows[k]] + Count(rows, rows[k]) > 1

\* db.bulk_save_objects(new_associations); db.commit(), with the except
\* IntegrityError: db.rollback() that follows it.
bulk_save_objects(store, c, rows) ==
    IF UniqueViolation(store, c, rows) THEN store
    ELSE [store EXCEPT ![c] = [r \in Recs |-> @[r] + Count(rows, r)]]

\* db.commit() of the pending db.add and db.delete calls of one page, with
\* the except IntegrityError: db.rollback() that follows it.  adds and dels
\* are sets of <<collection, company>>; a row deleted twice is one delete.
commit(store, adds, dels) ==
    IF \E p \in adds : store[p[1]][p[2]] > 0 THEN store
    ELSE [c \in Colls |-> [r \in Recs |->
            IF <<c, r>> \in adds THEN store[c][r] + 1
            ELSE IF <<c, r>> \in dels /\ store[c][r] > 0 THEN store[c][r] - 1
            ELSE store[c][r]]]

\* db.query(CompanyCollection).filter(collection_name == "Liked Companies List").first()
LikedList ==
    IF \E c \in Colls : collection_name[c] = LikedName
    THEN CHOOSE c \in Colls : collection_name[c] = LikedName
    ELSE None

-----------------------------------------------------------------------------
(* One page of each engine, as the code computes it.                       *)

RECURSIVE SortedFrom(_, _)
SortedFrom(S, r) ==
    IF r > MaxRec THEN <<>>
    ELSE (IF r \in S THEN <<r>> ELSE <<>>) \o SortedFrom(S, r + 1)

\* Iterating a Python set: each member once (the order does not matter to
\* any use below).
SetToSeq(S) == SortedFrom(S, 1)

\* The existence check without its collection_id filter: an id counts as
\* present when any collection holds it.
existing_anywhere(store, target_id, ids) ==
    {r \in ids : \E c \in Colls : store[c][r] > 0}

\* The existence check left out: nothing counts as present.
existing_unchecked(store, target_id, ids) == {}

\* The ids among `ids` that already have a row in the target.
existing_associations(store, target_id, ids) ==
    {r \in ids : store[target_id][r] > 0}

\* [... for assoc in companies if assoc.company_id not in existing_associations]
new_associations(companies, existing) ==
    SelectSeq(companies, LAMBDA r : r \notin existing)

\* The batch insert left out.
SaveNewSkipped(store, target_id, new) == store

\* The batch saved row by row with nothing to reject it.
SaveNewUnchecked(store, target_id, new) ==
    [store EXCEPT ![target_id] = [r \in Recs |-> @[r] + Count(new, r)]]

\* if new_associations: try: bulk_save_objects; commit / except: rollback
SaveNew(store, target_id, new) ==
    IF new # <<>> THEN bulk_save_objects(store, target_id, new) ELSE store

\* "Update liked status": the rows the target == liked branch adds ...
liked_adds(store, target_id, liked, ids) ==
    IF target_id = liked
    THEN {<<liked, r>> : r \in {x \in ids : store[liked][x] = 0}}
    ELSE {}

\* The else branch left out: no liked row is deleted.
liked_dels_none(store, target_id, liked, ids) == {}

\* ... and the rows the else branch deletes.
liked_dels(store, target_id, liked, ids) ==
    IF target_id = liked
    THEN {}
    ELSE {<<liked, r>> : r \in {x \in ids : store[liked][x] > 0}}

\* The move without its removal from the source.
source_dels_none(store, source_id, valid) == {}

\* "Remove from source collection" (move only).
source_dels(store, source_id, valid) ==
    {<<source_id, r>> : r \in {x \in valid : store[source_id][x] > 0}}

\* valid_company_ids = {assoc.company_id for assoc in source_associations}
valid_company_ids(store, source_id, batch) ==
    {r \in SeqToSet(batch) : store[source_id][r] > 0}

\* add_companies_to_collection, for a collection that exists: the rows for
\* the requested ids that the collection lacks are saved in one batch; an
\* IntegrityError rolls the batch back (and answers 400).
add_companies_to_collection(store, collection_id, company_ids) ==
    LET existing == {r \in Recs : store[collection_id][r] > 0}
        new      == SelectSeq(company_ids, LAMBDA r : r \notin existing)
    IN  SaveNew(store, collection_id, new)

\* The effect of such a request for the ids `raced`, none of them in the
\* collection yet, served between two statements of an engine.
RacingInsert(store, collection_id, raced) ==
    add_companies_to_collection(store, collection_id, SetToSeq(raced))

\* One iteration of the copy loop on the page `companies` (a sequence of
\* company ids): the store after it, the rows handed to bulk_save_objects
\* and the rows of them that were saved.
\* raced: company ids that a request served on another thread (the sync route
\* add_companies_to_collection) commits to the target after this page's
\* existence check and before its batch insert.
CopyPage(store, source_id, target_id, liked, companies, raced) ==
    LET ids      == SeqToSet(companies)
        existing == existing_associations(store, target_id, ids)
        new      == new_associations(companies, existing)
        s0       == RacingInsert(store, target_id, raced)
        s1       == SaveNew(s0, target_id, new)
        s2       == commit(s1, liked_adds(s1, target_id, liked, ids),
                               liked_dels(s1, target_id, liked, ids))
    IN  [store |-> s2, cand |-> ids, new |-> new,
         saved |-> IF s1 = s0 THEN <<>> ELSE new,
         pre |-> store, mid |-> s1, source_id |-> source_id, mode |-> "copy"]

\* One iteration of the move loop on the slice `batch` of company_ids.
MovePage(store, source_id, target_id, liked, batch, raced) ==
    LET valid    == valid_company_ids(store, source_id, batch)
        existing == existing_associations(store, target_id, valid)
        new      == new_associations(SetToSeq(valid), existing)
        s0       == RacingInsert(store, target_id, raced)
        s1       == SaveNew(s0, target_id, new)
        s2       == commit(s1, liked_adds(s1, target_id, liked, valid),
                               liked_dels(s1, target_id, liked, valid)
                                 \cup source_dels(s1, source_id, valid))
    IN  [store |-> s2, cand |-> valid, new |-> new,
         saved |-> IF s1 = s0 THEN <<>> ELSE new,
         pre |-> store, mid |-> s1, source_id |-> source_id, mode |-> "move"]

-----------------------------------------------------------------------------
(* State of one operation.                                                 *)

EmptyStore == [c \in Colls |-> [r \in Recs |-> 0]]

NoOp(pc) ==
    [pc |-> pc, mode |-> None, source_id |-> None, target_id |-> None,
     company_ids |-> <<>>, total_companies |-> 0, processed |-> 0, i |-> 0,
     liked_list |-> None]

NoHist ==
    [at_launch |-> EmptyStore, cand |-> {}, attempted |-> [r \in Recs |-> 0],
     placed |-> {}, removed |-> {}, rejected |-> FALSE, rejected_ever |-> FALSE,
     page_cand |-> {}, pre |-> EmptyStore, mid |-> EmptyStore, post |-> EmptyStore]

NoPrev == [source_id |-> None, target_id |-> None, placed |-> {}]

Stores == [Colls -> [Recs -> {0, 1}]]

MoveLists == UNION {[1..n -> 1..Min(MaxMoveId, MaxRec)] : n \in 0..MaxLen}

\* No operation is scheduled, paging or waiting out its retention.
Quiet == \A id \in OpIds : ops[id].pc \in {"idle", "done"}

\* Move requests of at most one page.
ShortLists == {ids \in MoveLists : Len(ids) <= batch_size}

\* Move requests of more than one page whose first page names one id only,
\* so that with ids 1..MaxMoveId both pages can find a record to move.
TwoPageLists ==
    {ids \in MoveLists : /\ Len(ids) > batch_size
                         /\ \A j \in 1..batch_size : ids[j] = ids[1]}

\* What the clients do.  overlap: an operation is launched while an earlier
\* one is still registered.  racing: add_companies_to_collection requests are
\* served (on the thread pool) while an operation runs.  lists: the
\* company_ids lists of the move requests.  adds: the company_ids lists of
\* the add requests.  colls: the collections the requests name.
SerialEnv ==
    [overlap |-> FALSE, racing |-> FALSE, lists |-> MoveLists, adds |-> MoveLists,
     colls |-> Colls]
OverlapEnv ==
    [overlap |-> TRUE, racing |-> FALSE, lists |-> TwoPageLists, adds |-> {<<1>>},
     colls |-> Colls]
RacingEnv ==
    [overlap |-> FALSE, racing |-> TRUE, lists |-> ShortLists, adds |-> ShortLists,
     colls |-> Colls]
OverlapLiveEnv ==
    [overlap |-> TRUE, racing |-> FALSE,
     lists |-> {ids \in TwoPageLists : ids[Len(ids)] = 2 /\ ids[1] = 1},
     adds |-> {<<1>>}, colls |-> {"L", "A"}]

LikedOrNot ==
    {[c \in Colls |-> IF c = "L" THEN n ELSE "My List " \o c] :
       n \in {LikedName, "My List L"}}

Init ==
    /\ assoc \in Stores
    /\ collection_name \in LikedOrNot
    /\ operation_progress = <<>>
    /\ ops = [id \in OpIds |-> NoOp("idle")]
    /\ next_id = 1
    /\ hist = [id \in OpIds |-> NoHist]
    /\ prev_copy = NoPrev
    /\ env = SerialEnv

-----------------------------------------------------------------------------
(* The launchers.                                                          *)

\* copy_collection_companies
LaunchCopy(source_id, target_id) ==
    /\ next_id <= MaxOps
    /\ env.overlap \/ Quiet
    /\ operation_progress' = (next_id :> Lit(0)) @@ operation_progress
    /\ ops' = [ops EXCEPT ![next_id] =
                 [pc |-> "scheduled", mode |-> "copy", source_id |-> source_id,
                  target_id |-> target_id, company_ids |-> <<>>,
                  total_companies |-> Len(Rows(assoc, source_id)),
                  processed |-> 0, i |-> 0, liked_list |-> None]]
    /\ hist' = [hist EXCEPT ![next_id] = [NoHist EXCEPT !.at_launch = assoc]]
    /\ prev_copy' = IF prev_copy.source_id = source_id /\ prev_copy.target_id = target_id
                    THEN prev_copy ELSE NoPrev
    /\ next_id' = next_id + 1
    /\ UNCHANGED <<assoc, collection_name, env>>

\* move_collection_companies
LaunchMove(source_id, target_id, company_ids) ==
    /\ next_id <= MaxOps
    /\ env.overlap \/ Quiet
    /\ operation_progress' = (next_id :> Lit(0)) @@ operation_progress
    /\ ops' = [ops EXCEPT ![next_id] =
                 [pc |-> "scheduled", mode |-> "move", source_id |-> source_id,
                  target_id |-> target_id, company_ids |-> company_ids,
                  total_companies |-> Len(company_ids),
                  processed |-> 0, i |-> 0, liked_list |-> None]]
    /\ hist' = [hist EXCEPT ![next_id] = [NoHist EXCEPT !.at_launch = assoc]]
    /\ prev_copy' = NoPrev
    /\ next_id' = next_id + 1
    /\ UNCHANGED <<assoc, collection_name, env>>

-----------------------------------------------------------------------------
(* The engines.                                                            *)

\* What an operation's run has done so far, for the claims.
Record(h, page) ==
    [h EXCEPT !.cand = @ \cup page.cand,
              !.attempted = [r \in Recs |-> @[r] + Count(page.new, r)],
              !.placed = @ \cup SeqToSet(page.saved),
              !.removed = @ \cup {r \in Recs : /\ page.mode = "move"
                                                /\ page.pre[page.source_id][r] > 0
                                                /\ page.store[page.source_id][r] = 0},
              !.rejected = (page.new # <<>> /\ page.saved = <<>>),
              !.rejected_ever = @ \/ (page.new # <<>> /\ page.saved = <<>>),
              !.page_cand = page.cand,
              !.pre = page.pre, !.mid = page.mid, !.post = page.store]

\* The ids a racing request can commit to the target so that they collide
\* with the page's batch insert: none unless such requests are served.
Races(target_id, ids) ==
    IF env.racing THEN SUBSET {r \in ids : assoc[target_id][r] = 0} ELSE {{}}

\* The engine without its final assignment of 100.0 and nothing in its
\* place: the registry keeps the value of the last page.
CompleteUnpublished(id, o) ==
    /\ ops' = [ops EXCEPT ![id] = [o EXCEPT !.pc = "retention"]]
    /\ UNCHANGED <<operation_progress, assoc, hist>>

\* The engine without its final assignment of 100.0: the last published
\* value is processed / total * 100, which raises ZeroDivisionError when
\* total is 0 and lands in the except block.
CompleteByRatio(id, o) ==
    /\ operation_progress' =
         (id :> IF o.total_companies = 0 THEN Lit(-1)
                ELSE Percent(o.processed, o.total_companies)) @@ operation_progress
    /\ ops' = [ops EXCEPT ![id] = [o EXCEPT !.pc = "retention"]]
    /\ UNCHANGED <<assoc, hist>>

\* operation_progress[operation_id] = 100.0, then the finally block's
\* await asyncio.sleep(300).
Complete(id, o) ==
    /\ operation_progress' = (id :> Lit(100)) @@ operation_progress
    /\ ops' = [ops EXCEPT ![id] = [o EXCEPT !.pc = "retention"]]
    /\ UNCHANGED <<assoc, hist>>

\* The except block without its assignment: the exception passes through and
\* the registry keeps the value the launcher wrote.
FailUnrecorded(id) ==
    /\ ops' = [ops EXCEPT ![id].pc = "retention"]
    /\ UNCHANGED <<operation_progress, assoc, hist>>

\* except Exception: operation_progress[operation_id] = -1.0; raise, then
\* the finally block's await asyncio.sleep(300).
Fail(id) ==
    /\ operation_progress' = (id :> Lit(-1)) @@ operation_progress
    /\ ops' = [ops EXCEPT ![id].pc = "retention"]
    /\ UNCHANGED <<assoc, hist>>

\* processed = len(companies) in place of processed += len(companies).
CopyAdvanceAssign(o, companies) == Len(companies)

\* processed += len(companies)
CopyAdvance(o, companies) == o.processed + Len(companies)

\* processed += len(set(batch)): the slice counted without its repeats.
MoveAdvanceDistinct(o, batch) == o.processed + Cardinality(SeqToSet(batch))

\* processed += len(batch)
MoveAdvance(o, batch) == o.processed + Len(batch)

\* copy_companies_background from the loop test to the next await, for the
\* operation whose locals are o.
CopyLoop(id, o) ==
    LET companies == Page(Rows(assoc, o.source_id), o.processed, batch_size)
        processed == CopyAdvance(o, companies)
    IN  IF o.processed < o.total_companies /\ companies # <<>>
        THEN \E raced \in Races(o.target_id, SeqToSet(companies)) :
             LET page == CopyPage(assoc, o.source_id, o.target_id, o.liked_list,
                                  companies, raced)
             IN
             /\ assoc' = page.store
             /\ ops' = [ops EXCEPT ![id] = [o EXCEPT !.pc = "paging",
                                                     !.processed = processed]]
             /\ operation_progress' =
                  (id :> Percent(processed, o.total_companies)) @@ operation_progress
             /\ hist' = [hist EXCEPT ![id] = Record(@, page)]
        ELSE Complete(id, o)

\* move_companies_background from the range step to the next await.
MoveLoop(id, o) ==
    LET batch     == Page(o.company_ids, o.i, batch_size)
        processed == MoveAdvance(o, batch)
    IN  IF o.i < Len(o.company_ids)
        THEN \E raced \in Races(o.target_id, valid_company_ids(assoc, o.source_id, batch)) :
             LET page == MovePage(assoc, o.source_id, o.target_id, o.liked_list,
                                  batch, raced)
             IN
             /\ assoc' = page.store
             /\ ops' = [ops EXCEPT ![id] = [o EXCEPT !.pc = "paging",
                                                     !.processed = processed,
                                                     !.i = o.i + batch_size]]
             /\ operation_progress' =
                  (id :> Percent(processed, o.total_companies)) @@ operation_progress
             /\ hist' = [hist EXCEPT ![id] = Record(@, page)]
        ELSE Complete(id, o)

Loop(id, o) == IF o.mode = "copy" THEN CopyLoop(id, o) ELSE MoveLoop(id, o)

\* The background task starts: it resolves the liked collection and runs up
\* to its first await.
Start(id) ==
    /\ ops[id].pc = "scheduled"
    /\ IF LikedList = None
       THEN Fail(id)
       ELSE Loop(id, [ops[id] EXCEPT !.liked_list = LikedList])
    /\ UNCHANGED <<collection_name, next_id, prev_copy, env>>

\* The engine resumes after await asyncio.sleep(0.1).
Step(id) ==
    /\ ops[id].pc = "paging"
    /\ Loop(id, ops[id])
    /\ UNCHANGED <<collection_name, next_id, prev_copy, env>>

\* The finally block without its del.
EvictedNever(registry, id) == registry

\* if operation_id in operation_progress: del operation_progress[operation_id]
Evicted(registry, id) ==
    [k \in DOMAIN registry \ {id} |-> registry[k]]

\* The engine resumes after await asyncio.sleep(300) and returns; its frame
\* and locals are gone.
Evict(id) ==
    /\ ops[id].pc = "retention"
    /\ operation_progress' = Evicted(operation_progress, id)
    /\ ops' = [ops EXCEPT ![id] = NoOp("done")]
    /\ hist' = [hist EXCEPT ![id] = NoHist]
    /\ prev_copy' = IF ops[id].mode = "copy"
                    THEN [source_id |-> ops[id].source_id,
                          target_id |-> ops[id].target_id,
                          placed |-> hist[id].placed]
                    ELSE prev_copy
    /\ UNCHANGED <<assoc, collection_name, next_id, env>>

\* A request to add_companies_to_collection is served.  Without racing
\* requests it is served only while no operation is registered.
AddCompanies(collection_id, company_ids) ==
    /\ env.racing \/ Quiet
    /\ assoc' = add_companies_to_collection(assoc, collection_id, company_ids)
    /\ assoc' # assoc
    /\ UNCHANGED <<collection_name, operation_progress, ops, next_id, hist,
                   prev_copy, env>>

\* get_operation_progress
NotFound == [status_code |-> 404]

get_operation_progress(id) ==
    IF id \notin DOMAIN operation_progress THEN NotFound
    ELSE LET progress == operation_progress[id]
         IN  [progress |-> progress,
              status |-> IF Is100(progress) THEN "completed"
                         ELSE IF IsFail(progress) THEN "error"
                         ELSE "in_progress"]

-----------------------------------------------------------------------------

Next ==
    \/ \E s, t \in env.colls : LaunchCopy(s, t)
    \/ \E s, t \in env.colls : \E ids \in env.lists : LaunchMove(s, t, ids)
    \/ \E c \in env.colls : \E ids \in env.adds : AddCompanies(c, ids)
    \/ \E id \in OpIds : Start(id)
    \/ \E id \in OpIds : Step(id)
    \/ \E id \in OpIds : Evict(id)

\* Operations are launched one at a time: a launch waits until every earlier
\* operation has been evicted.
Spec == Init /\ [][Next]_vars

\* The next step of engine id, whichever await it is resuming from.
Engine(id) == Start(id) \/ Step(id) \/ Evict(id)

\* Engine(id) can take a step exactly in these positions: each of Start,
\* Step and Evict changes ops[id].
EngineEnabled(id) == ops[id].pc \in {"scheduled", "paging", "retention"}

\* WF_vars(Engine(id)) with ENABLED <<Engine(id)>>_vars written out as
\* EngineEnabled(id).
EngineFair(id) == []<>(~EngineEnabled(id)) \/ []<><<Engine(id)>>_vars

\* Stores in which every collection is empty or holds every record.
AllOrNothing == {st \in Stores : \A c \in Colls : Members(st, c) \in {{}, Recs}}

\* One operation is left to launch; the earlier ones have been evicted.
LiveInit ==
    /\ assoc \in AllOrNothing
    /\ collection_name \in LikedOrNot
    /\ operation_progress = <<>>
    /\ ops = [id \in OpIds |-> NoOp(IF id < MaxOps THEN "done" ELSE "idle")]
    /\ next_id = MaxOps
    /\ hist = [id \in OpIds |-> NoHist]
    /\ prev_copy = NoPrev
    /\ env = SerialEnv

\* The event loop resumes every engine whose sleep has ended; nothing obliges
\* a client to launch.
LiveSpec ==
    /\ LiveInit
    /\ [][Next]_vars
    /\ \A id \in OpIds : EngineFair(id)

\* Operations overlap: a launch does not wait for the earlier operations.
OverlapInit ==
    /\ assoc \in AllOrNothing
    /\ collection_name \in LikedOrNot
    /\ operation_progress = <<>>
    /\ ops = [id \in OpIds |-> NoOp("idle")]
    /\ next_id = 1
    /\ hist = [id \in OpIds |-> NoHist]
    /\ prev_copy = NoPrev
    /\ env = OverlapEnv

OverlapSpec == OverlapInit /\ [][Next]_vars

\* Requests to add_companies_to_collection are served while an operation
\* runs, also between two statements of a page.
RacingInit ==
    /\ assoc \in AllOrNothing
    /\ collection_name \in LikedOrNot
    /\ operation_progress = <<>>
    /\ ops = [id \in OpIds |-> NoOp(IF id < MaxOps THEN "done" ELSE "idle")]
    /\ next_id = MaxOps
    /\ hist = [id \in OpIds |-> NoHist]
    /\ prev_copy = NoPrev
    /\ env = RacingEnv

RacingSpec == RacingInit /\ [][Next]_vars

\* Overlapping operations on collection L, which holds every record, and
\* collection A, which holds record 1; every engine is resumed by the event
\* loop when its sleep has ended.
OverlapLiveInit ==
    /\ assoc \in {st \in Stores : /\ Members(st, "L") = Recs
                                  /\ Members(st, "A") = {1}
                                  /\ Members(st, "B") = {}}
    /\ collection_name \in LikedOrNot
    /\ operation_progress = <<>>
    /\ ops = [id \in OpIds |-> NoOp("idle")]
    /\ next_id = 1
    /\ hist = [id \in OpIds |-> NoHist]
    /\ prev_copy = NoPrev
    /\ env = OverlapLiveEnv

OverlapLiveSpec ==
    /\ OverlapLiveInit
    /\ [][Next]_vars
    /\ \A id \in OpIds : EngineFair(id)

-----------------------------------------------------------------------------
(* Vocabulary of the claims.                                               *)

Registered(id) == id \in DOMAIN operation_progress
Completed(id) == ops[id].pc = "retention" /\ Registered(id) /\ Is100(operation_progress[id])
Failed(id) == Registered(id) /\ IsFail(operation_progress[id])
Live(id) == ops[id].pc \in {"scheduled", "paging", "retention"}
Launched(id) == ops[id].pc = "scheduled"
ZeroUnits(id) == Live(id) /\ ops[id].total_companies = 0
IsCopy(id) == ops[id].mode = "copy"
IsMove(id) == ops[id].mode = "move"

-----------------------------------------------------------------------------
(* Claims.                                                                 *)

\* C1 as stated: every operation launched with total_units = 0 eventually
\* has progress exactly 100, and its progress is never the failure sentinel
\* -1, whatever the store holds.
C1_AsStated ==
    /\ \A id \in OpIds :
         (Launched(id) /\ ZeroUnits(id)) ~> (Registered(id) /\ Is100(operation_progress[id]))
    /\ [](\A id \in OpIds : ZeroUnits(id) => ~Failed(id))

\* C1 amended: when the liked collection resolves by name, every operation
\* launched with total_units = 0 eventually has progress exactly 100, and its
\* progress is never the failure sentinel -1.
C1_ZeroUnitsComplete ==
    /\ \A id \in OpIds :
         (Launched(id) /\ ZeroUnits(id) /\ LikedList # None)
            ~> (Registered(id) /\ Is100(operation_progress[id]))
    /\ [](\A id \in OpIds : ZeroUnits(id) /\ LikedList # None => ~Failed(id))

C1_Witness ==
    \E id \in OpIds : ZeroUnits(id) /\ Completed(id) /\ LikedList # None

\* C2 as stated: after a completed move whose target is the liked
\* collection, every requested id that was in the source when its page was
\* processed is a member of the liked collection, whatever the source.
C2_MovedIntoLikedAreLiked ==
    \A id \in OpIds :
        IsMove(id) /\ Completed(id) /\ ops[id].target_id = LikedList
          => hist[id].cand \subseteq Members(assoc, LikedList)

\* C3: after a completed move from the liked collection to a non-liked
\* target, every requested id that was in the liked collection when its page
\* was processed is a member of the target and not of the liked collection.
C3_MovedOutOfLiked ==
    \A id \in OpIds :
        IsMove(id) /\ Completed(id) /\ ops[id].source_id = LikedList
                   /\ ops[id].target_id # LikedList
          => /\ hist[id].cand \subseteq Members(assoc, ops[id].target_id)
             /\ hist[id].cand \cap Members(assoc, LikedList) = {}

C3_Witness ==
    \E id \in OpIds :
        /\ IsMove(id) /\ Completed(id) /\ ops[id].source_id = LikedList
        /\ ops[id].target_id # LikedList
        /\ Cardinality(hist[id].cand) = 2
        /\ ops[id].processed > batch_size

\* C4 as stated: during and after a copy, the source's membership contains
\* its membership at launch, for every source and target.
C4_CopyKeepsSource ==
    \A id \in OpIds :
        IsCopy(id) /\ Live(id)
          => Members(hist[id].at_launch, ops[id].source_id)
               \subseteq Members(assoc, ops[id].source_id)

\* C5 as stated: when a copy completes, the target's membership is its
\* membership at launch united with the source's membership at launch.
C5_CopyTargetIsUnion ==
    \A id \in OpIds :
        IsCopy(id) /\ Completed(id)
          => Members(assoc, ops[id].target_id)
               = Members(hist[id].at_launch, ops[id].target_id)
                   \cup Members(hist[id].at_launch, ops[id].source_id)

\* C6 as stated: a completed copy whose source and target are both not the
\* liked collection leaves the liked collection's membership as at launch.
C6_CopyLeavesLiked ==
    \A id \in OpIds :
        IsCopy(id) /\ Completed(id) /\ LikedList # None
                   /\ ops[id].source_id # LikedList /\ ops[id].target_id # LikedList
          => Members(assoc, LikedList) = Members(hist[id].at_launch, LikedList)

\* A copy that repeats the last evicted copy (same source, same target).
SecondRun(id) ==
    /\ IsCopy(id) /\ Live(id)
    /\ prev_copy.source_id = ops[id].source_id
    /\ prev_copy.target_id = ops[id].target_id

\* C7: no (record, collection) pair is ever stored twice, and a copy that
\* repeats a completed copy hands no id to the target insert that the first
\* run placed in the target.
C7_SecondCopyInsertsNothingAgain ==
    /\ \A c \in Colls, r \in Recs : assoc[c][r] <= 1
    /\ \A id \in OpIds :
         SecondRun(id) => \A r \in prev_copy.placed : hist[id].attempted[r] = 0

C7_Witness ==
    \E id \in OpIds :
        /\ SecondRun(id) /\ Completed(id)
        /\ Cardinality(prev_copy.placed) = 3
        /\ ops[id].processed = 3

HasDuplicate(ids) == \E j, k \in DOMAIN ids : j # k /\ ids[j] = ids[k]

\* C8: in a move whose id list repeats an id, no id is handed to the target
\* insert more than once, every id found in the source is removed from it,
\* and on completion the source holds exactly its members at launch that were
\* not in the list.
C8_DuplicateIdsMoveOnce ==
    \A id \in OpIds :
        IsMove(id) /\ Live(id) /\ HasDuplicate(ops[id].company_ids)
          => /\ \A r \in Recs : hist[id].attempted[r] <= 1
             /\ hist[id].cand \cap Members(assoc, ops[id].source_id) = {}
             /\ Completed(id) =>
                  Members(assoc, ops[id].source_id)
                    = Members(hist[id].at_launch, ops[id].source_id)
                        \ SeqToSet(ops[id].company_ids)

C8_Witness ==
    \E id \in OpIds :
        /\ IsMove(id) /\ Completed(id)
        /\ ops[id].company_ids = <<1, 2, 1>>
        /\ hist[id].cand = {1, 2}
        /\ hist[id].attempted[1] = 1
        /\ Members(assoc, ops[id].source_id) = {3}

\* C9: processed_units of an operation never decreases from one state of
\* the operation to the next.
C9_ProcessedMonotone ==
    [][\A id \in OpIds :
          Live(id) /\ ops'[id].pc \in {"paging", "retention"}
            => ops'[id].processed >= ops[id].processed]_vars

C9_Witness ==
    \E id \in OpIds : Live(id) /\ ops[id].processed > batch_size

Terminal(id) ==
    Registered(id) /\ (Is100(operation_progress[id]) \/ IsFail(operation_progress[id]))

\* C10: every operation whose progress is terminal (100 or -1) eventually
\* has no registry entry, and once the engine has evicted the entry a
\* progress query for the id answers NotFound.
C10_TerminalIsEvicted ==
    /\ \A id \in OpIds : Terminal(id) ~> ~Registered(id)
    /\ [](\A id \in OpIds : ops[id].pc = "done" => get_operation_progress(id) = NotFound)

C10_Witness ==
    /\ ops[MaxOps].pc = "done"
    /\ get_operation_progress(MaxOps) = NotFound

\* C11: when no collection carries the liked collection's name, an engine
\* that has started has progress -1 (a query answers status error), it has
\* selected no candidate, handed nothing to an insert and removed nothing,
\* the store is as it was at launch, and no registry value is 100.
C11_LikedMissingFails ==
    LikedList = None =>
      /\ \A id \in OpIds :
            ops[id].pc = "retention" =>
              /\ Failed(id)
              /\ get_operation_progress(id).status = "error"
              /\ hist[id].cand = {} /\ hist[id].removed = {}
              /\ \A r \in Recs : hist[id].attempted[r] = 0
      /\ \A id \in OpIds :
            /\ ops[id].pc # "paging"
            /\ Live(id) => assoc = hist[id].at_launch
            /\ Registered(id) => ~Is100(operation_progress[id])

C11_Witness ==
    \E id \in OpIds :
        /\ LikedList = None /\ ops[id].pc = "retention" /\ Failed(id)
        /\ IsMove(id) /\ ops[id].total_companies = MaxLen
        /\ Members(assoc, ops[id].source_id) = Recs

\* The step is a loop iteration of operation id that worked on a page.
PageTaken(id) == ops'[id].pc = "paging" /\ ops'[id] # ops[id]

C13_PageCommitsAsUnit ==
    \A id \in OpIds :
        Live(id) => hist[id].mid \in {hist[id].pre, hist[id].post}

\* C14: when a copy or move whose target is not the liked collection has
\* completed, serially, no candidate of any of its pages is a member of the
\* liked collection, whatever the source and whether or not the target
\* already held the candidate.
C14_CandidatesLeaveLiked ==
    \A id \in OpIds :
        Completed(id) /\ LikedList # None /\ ops[id].target_id # LikedList
          => hist[id].cand \cap Members(assoc, LikedList) = {}

C14_Witness ==
    \E id \in OpIds :
        /\ IsCopy(id) /\ Completed(id) /\ LikedList # None
        /\ ops[id].source_id = LikedList /\ ops[id].target_id # LikedList
        /\ hist[id].cand = {1, 2} /\ hist[id].placed = {}
        /\ Members(hist[id].at_launch, ops[id].target_id) = Recs

\* C15: when every engine is resumed after its sleep, every launched copy
\* or move reaches the end of its run with progress 100 or -1, also when
\* operations that overlap with it add to or remove from its source.
C15_LaunchedTerminates ==
    \A id \in OpIds :
        Launched(id) ~> (ops[id].pc = "retention" /\ Terminal(id))

\* A copy whose source grew past the count taken at launch has completed.
C15_Witness ==
    \E id \in OpIds :
        /\ IsCopy(id) /\ Completed(id)
        /\ ops[id].processed > ops[id].total_companies
        /\ \E other \in OpIds : other # id /\ IsMove(other) /\ Live(other)

\* C16: a batch insert that the store rejects for a uniqueness violation
\* never makes the operation fail: no row of the batch is stored (no pair is
\* ever stored twice), the liked step of that page has run (its candidates
\* are all in the liked collection when it is the target and none of them is
\* when it is not), processed_units has advanced by the page, and the
\* operation ends at 100.
C16_RejectedInsertIsSkipped ==
    /\ [](\A c \in Colls, r \in Recs : assoc[c][r] <= 1)
    /\ [](\A id \in OpIds :
            Live(id) /\ hist[id].rejected_ever
              => /\ ~Failed(id)
                 /\ ops[id].pc = "retention" => Completed(id))
    /\ [](\A id \in OpIds :
            Live(id) /\ hist[id].rejected
              => IF ops[id].target_id = LikedList
                 THEN hist[id].page_cand \subseteq Members(hist[id].post, LikedList)
                 ELSE hist[id].page_cand \cap Members(hist[id].post, LikedList) = {})
    /\ [][\A id \in OpIds :
            PageTaken(id) /\ hist'[id].rejected
              => ops'[id].processed - ops[id].processed
                   = IF IsCopy(id)' THEN Cardinality(hist'[id].page_cand)
                     ELSE Min(batch_size, Len(ops'[id].company_ids)
                                            - ops'[id].i + batch_size)]_vars

\* A copy of two pages whose first batch was rejected and whose second was
\* saved has completed.
C16_Witness ==
    \E id \in OpIds :
        /\ IsCopy(id) /\ Completed(id)
        /\ hist[id].rejected_ever /\ ~hist[id].rejected
        /\ ops[id].processed = MaxRec
        /\ hist[id].placed = {MaxRec}
        /\ hist[id].attempted = [r \in Recs |-> 1]

\* C17 as stated: every value in the progress registry is the failure
\* sentinel -1 or a percentage from 0 to 100, also when the source of a copy
\* changes between the count taken at launch and the paging.
C17_ProgressInRange ==
    \A id \in DOMAIN operation_progress :
        \/ IsFail(operation_progress[id])
        \/ /\ operation_progress[id].d > 0
           /\ 0 <= operation_progress[id].n
           /\ operation_progress[id].n <= 100 * operation_progress[id].d

\* C18 as stated: when a move has completed, serially, every record id it
\* removed from the source is a member of the target, for every source and
\* target, source equal to target included.
C18_MoveLosesNothing ==
    \A id \in OpIds :
        IsMove(id) /\ Completed(id)
          => hist[id].removed \subseteq Members(assoc, ops[id].target_id)

\* C19: while the registry value of an operation is 100 a query reports
\* completed, no step of that operation changes the association store, and
\* the value is still 100 after every step that leaves the entry in the
\* registry.
C19_HundredIsFinal ==
    [][\A id \in OpIds :
          Registered(id) /\ Is100(operation_progress[id])
            => /\ get_operation_progress(id).status = "completed"
               /\ ops'[id] # ops[id] => assoc' = assoc
               /\ Registered(id)' => Is100(operation_progress[id])']_vars

\* The last page of a two-page operation has published 100 and the engine
\* has not yet left its loop.
C19_Witness ==
    \E id \in OpIds :
        /\ Registered(id) /\ Is100(operation_progress[id])
        /\ ops[id].pc = "paging"
        /\ ops[id].processed = MaxRec
        /\ hist[id].post # hist[id].pre

\* Every operation launched so far is a move with source different from
\* target, and none of them has been evicted.
OnlyProperMoves ==
    \A id \in OpIds :
        ops[id].pc # "idle"
          => Live(id) /\ IsMove(id) /\ ops[id].source_id # ops[id].target_id

\* C20: while only moves with source different from target run, interleaved
\* at their awaits, every record that was in some collection when any of
\* them was launched is in some collection, and no (record, collection) pair
\* is stored twice.
C20_ConcurrentMovesKeepRecords ==
    OnlyProperMoves =>
      /\ \A id \in OpIds : \A r \in Recs :
            Live(id) /\ (\E c \in Colls : hist[id].at_launch[c][r] > 0)
              => \E c \in Colls : assoc[c][r] > 0
      /\ \A c \in Colls, r \in Recs : assoc[c][r] <= 1

\* Two moves in opposite directions are both between their pages and each
\* has removed a record from its source.
C20_Witness ==
    /\ OnlyProperMoves
    /\ \A id \in OpIds :
          /\ ops[id].pc = "paging" /\ ops[id].processed = batch_size
          /\ hist[id].removed # {}
    /\ ops[1].source_id = ops[2].target_id
    /\ ops[1].target_id = ops[2].source_id

====
